---- MODULE Spec2Model ----
(***************************************************************************)
(* State-machine model of src/mrcptest.py, a Streamlit quiz application.   *)
(*                                                                         *)
(* Streamlit re-executes the whole script (main) on every user event.  One *)
(* action of this model is one script run: the run that sees a user event, *)
(* or the run the script runner starts because the run before it called    *)
(* st.rerun().  A user event is an interaction with a widget of the page   *)
(* the browser displays; a run reports it through the widget of the same   *)
(* identity, if it renders one.  While a rerun is outstanding the browser  *)
(* keeps the widgets that the ended run did not render anew, and an        *)
(* interaction with the page reaches the outstanding run.  Python lists are*)
(* functions over 0..n-1, so positions keep the source's numbering.  An    *)
(* optional value is a sequence of length at most one: None is <<>> and a  *)
(* value x is <<x>>.  A string is the sequence of its characters.          *)
(***************************************************************************)
EXTENDS Integers, Sequences, FiniteSets, TLC

\* ---------------------------------------------------------------- bounds
\* Number of questions of the source's bank that the model's bank holds.
NumQuestions == 2
\* datetime.now() yields a value in 0..MaxTime.
MaxTime == 1

\* ---------------------------------------------------------------- values
None == <<>>
Some(x) == <<x>>
Val(o) == o[1]

\* Python truthiness of an optional string: None and "" are falsy.
Truthy(o) == o # None /\ Val(o) # <<>>

\* ---------------------------------------------------------------- bank
\* The first questions of the bank; of each Question the fields that the
\* logic reads (options, correct_answer).  Each keeps its first two options,
\* which include the correct one.
Bank ==
  << [options |-> << <<"P","r","i","m">>, <<"M","a","l","i","g">> >>,
      correct_answer |-> <<"M","a","l","i","g">>],
     [options |-> << <<"B","e","t","a">>, <<"C","a","l","c">> >>,
      correct_answer |-> <<"B","e","t","a">>],
     [options |-> << <<"T","u","b","e","r">>, <<"A","u","t","o">> >>,
      correct_answer |-> <<"A","u","t","o">>],
     [options |-> << <<"S","y","m","m">>, <<"A","s","y","m","m">> >>,
      correct_answer |-> <<"S","y","m","m">>] >>

\* The module-level list `questions`, as a function over 0..len-1.
questions == [i \in 0..(NumQuestions - 1) |-> Bank[i + 1]]

\* len(questions)
NQ == NumQuestions
Positions == 0..(NQ - 1)
Times == 0..MaxTime

\* The outcomes of questions.copy() followed by random.shuffle: every
\* arrangement of the bank's Question objects.  A Question object is named
\* by its index in `questions`.
Shuffles == {p \in [Positions -> Positions] :
               \A i, j \in Positions : i # j => p[i] # p[j]}

\* chr(65 + i)
Letters == <<"A", "B", "C", "D">>
chr65(i) == Letters[i + 1]

\* f"{chr(65+i)}. {opt}"
OptionLabel(i, opt) == <<chr65(i), ".", " ">> \o opt

\* selected.split(". ", 1)[1]: the text after the first occurrence of ". ".
SplitAt(s) == CHOOSE k \in 1..(Len(s) - 1) :
                /\ s[k] = "." /\ s[k + 1] = " "
                /\ \A j \in 1..(k - 1) : ~(s[j] = "." /\ s[j + 1] = " ")
clean_answer(selected) == SubSeq(selected, SplitAt(selected) + 2, Len(selected))

\* ---------------------------------------------------------------- state
VARIABLES
  session_state,  \* st.session_state: the keys initialize_session_state sets
  radio,          \* the st.radio widget the last script run rendered
  view,           \* what the last script run rendered
  buttons,        \* "Previous" and "Next" in the browser: enabled or not
  rerun,          \* the last run called st.rerun(); its rerun is outstanding
  lastOp          \* the user event handled last, and the runs made for it

vars == <<session_state, radio, view, buttons, rerun, lastOp>>

\* st.session_state before the first script run: no key is present.
EmptySessionState == [k \in {} |-> None]

\* A st.radio widget is identified by its key f"q{current_q}" and its
\* options (those of one Question).  Its value is None or Some(label).
RadioId(pos, q) == <<pos, q>>
NoRadio == [id |-> <<>>, value |-> None]

\* User events.  arg names the widget: <<radio id, option index>> for a
\* pick of the radio, <<current_q>> for the button keyed submit_{current_q},
\* <<i>> for the button keyed nav_{i}, <<>> for the buttons without key,
\* which their labels identify.  run counts the script runs made for
\* the event.  "rerender" is a script run with no widget interaction.
NoEvent == [type |-> "rerender", arg |-> <<>>, run |-> 1]
Event(t, a) == [type |-> t, arg |-> a, run |-> 1]

Min(a, b) == IF a < b THEN a ELSE b
Max(a, b) == IF a > b THEN a ELSE b

\* ---------------------------------------------------------------- code
\* initialize_session_state() shuffling on every run, without the test
\* `shuffled_questions is None`.
initialize_session_state_reshuffles(ss, now, shuffle) ==
  LET required_keys ==
        [current_q |-> 0,
         score |-> 0,
         answers |-> [i \in Positions |-> None],
         selected_options |-> [i \in Positions |-> None],
         start_time |-> now,
         submitted |-> [i \in Positions |-> FALSE],
         shuffled_questions |-> None]
      s1 == ss @@ required_keys
  IN [s1 EXCEPT !.shuffled_questions = shuffle]

\* initialize_session_state(): set each missing key, then shuffle once.
\* shuffled_questions None is <<>>; a shuffled list is a function over
\* Positions, which has at least one element.
initialize_session_state(ss, now, shuffle) ==
  LET required_keys ==
        [current_q |-> 0,
         score |-> 0,
         answers |-> [i \in Positions |-> None],
         selected_options |-> [i \in Positions |-> None],
         start_time |-> now,
         submitted |-> [i \in Positions |-> FALSE],
         shuffled_questions |-> None]
      s1 == ss @@ required_keys
  IN IF s1.shuffled_questions = None
       THEN [s1 EXCEPT !.shuffled_questions = shuffle]
       ELSE s1

\* restart_quiz() filling the new list with draws that may repeat (as
\* random.choices would) instead of shuffling a copy of the bank.
restart_quiz_repeats(ss, now, shuffle) ==
  [ss EXCEPT !.shuffled_questions = [i \in Positions |-> shuffle[0]],
             !.current_q = 0,
             !.score = 0,
             !.answers = [i \in Positions |-> None],
             !.selected_options = [i \in Positions |-> None],
             !.start_time = now,
             !.submitted = [i \in Positions |-> FALSE]]

\* restart_quiz() without the reset of answers.
restart_quiz_keeps_answers(ss, now, shuffle) ==
  [ss EXCEPT !.shuffled_questions = shuffle,
             !.current_q = 0,
             !.score = 0,
             !.selected_options = [i \in Positions |-> None],
             !.start_time = now,
             !.submitted = [i \in Positions |-> FALSE]]

\* restart_quiz() without the reset of score.
restart_quiz_keeps_score(ss, now, shuffle) ==
  [ss EXCEPT !.shuffled_questions = shuffle,
             !.current_q = 0,
             !.answers = [i \in Positions |-> None],
             !.selected_options = [i \in Positions |-> None],
             !.start_time = now,
             !.submitted = [i \in Positions |-> FALSE]]

\* restart_quiz(), up to its st.rerun().
restart_quiz(ss, now, shuffle) ==
  [ss EXCEPT !.shuffled_questions = shuffle,
             !.current_q = 0,
             !.score = 0,
             !.answers = [i \in Positions |-> None],
             !.selected_options = [i \in Positions |-> None],
             !.start_time = now,
             !.submitted = [i \in Positions |-> FALSE]]

\* handle_answer() adding to the score whether or not the answer is correct.
handle_answer_scores_any(ss, question) ==
  LET current_q == ss.current_q
      selected == ss.selected_options[current_q]
      is_correct == Val(selected) = question.correct_answer
      s1 == IF ss.answers[current_q] = None
              THEN [ss EXCEPT !.score = @ + 1,
                              !.answers[current_q] = Some(is_correct)]
              ELSE ss
  IN IF ~Truthy(selected)
       THEN [ss |-> ss, warning |-> TRUE, rerun |-> FALSE]
       ELSE [ss |-> [s1 EXCEPT !.submitted[current_q] = TRUE],
             warning |-> FALSE, rerun |-> TRUE]

\* handle_answer() without the test `answers[current_q] is None`.
handle_answer_unguarded(ss, question) ==
  LET current_q == ss.current_q
      selected == ss.selected_options[current_q]
      is_correct == Val(selected) = question.correct_answer
      s1 == [ss EXCEPT !.score = IF is_correct THEN @ + 1 ELSE @,
                       !.answers[current_q] = Some(is_correct)]
  IN IF ~Truthy(selected)
       THEN [ss |-> ss, warning |-> TRUE, rerun |-> FALSE]
       ELSE [ss |-> [s1 EXCEPT !.submitted[current_q] = TRUE],
             warning |-> FALSE, rerun |-> TRUE]

\* handle_answer() without its closing st.rerun(): the run goes on with the
\* page display_question() has rendered so far.
handle_answer_no_rerun(ss, question) ==
  LET current_q == ss.current_q
      selected == ss.selected_options[current_q]
      is_correct == Val(selected) = question.correct_answer
      s1 == IF ss.answers[current_q] = None
              THEN [ss EXCEPT !.score = IF is_correct THEN @ + 1 ELSE @,
                              !.answers[current_q] = Some(is_correct)]
              ELSE ss
  IN IF ~Truthy(selected)
       THEN [ss |-> ss, warning |-> TRUE, rerun |-> FALSE]
       ELSE [ss |-> [s1 EXCEPT !.submitted[current_q] = TRUE],
             warning |-> FALSE, rerun |-> FALSE]

\* handle_answer() rebuilding the submitted list with only the current
\* position marked.
handle_answer_forgets_others(ss, question) ==
  LET current_q == ss.current_q
      selected == ss.selected_options[current_q]
      is_correct == Val(selected) = question.correct_answer
      s1 == IF ss.answers[current_q] = None
              THEN [ss EXCEPT !.score = IF is_correct THEN @ + 1 ELSE @,
                              !.answers[current_q] = Some(is_correct)]
              ELSE ss
  IN IF ~Truthy(selected)
       THEN [ss |-> ss, warning |-> TRUE, rerun |-> FALSE]
       ELSE [ss |-> [s1 EXCEPT !.submitted =
                                  [i \in Positions |-> i = current_q]],
             warning |-> FALSE, rerun |-> TRUE]

\* handle_answer(question): the session state it leaves, whether it showed
\* the warning, and whether it called st.rerun().
handle_answer(ss, question) ==
  LET current_q == ss.current_q
      selected == ss.selected_options[current_q]
      is_correct == Val(selected) = question.correct_answer
      s1 == IF ss.answers[current_q] = None
              THEN [ss EXCEPT !.score = IF is_correct THEN @ + 1 ELSE @,
                              !.answers[current_q] = Some(is_correct)]
              ELSE ss
  IN IF ~Truthy(selected)
       THEN [ss |-> ss, warning |-> TRUE, rerun |-> FALSE]
       ELSE [ss |-> [s1 EXCEPT !.submitted[current_q] = TRUE],
             warning |-> FALSE, rerun |-> TRUE]

\* display_question() taking the question from the bank in its original
\* order, questions[current_q], instead of from shuffled_questions.
display_question_unshuffled(ss, w, ev) ==
  LET s1 == [ss EXCEPT !.current_q =
                Max(0, Min(ss.current_q, NQ - 1))]
      cq == s1.current_q
      q == cq
      question == questions[q]
      options == [i \in 0..(Len(question.options) - 1) |->
                    OptionLabel(i, question.options[i + 1])]
      id == RadioId(cq, q)
      selected == IF /\ ev.type = "select"
                     /\ ev.arg[1] = id
                     /\ ev.arg[2] \in DOMAIN options
                    THEN Some(options[ev.arg[2]])
                  ELSE IF w.id = id THEN w.value
                  ELSE None
      s2 == IF Truthy(selected)
              THEN [s1 EXCEPT !.selected_options[cq] =
                                 Some(clean_answer(Val(selected)))]
              ELSE s1
      w2 == [id |-> id, value |-> selected]
  IN IF ~s1.submitted[cq]
       THEN IF ev.type = "submit" /\ ev.arg = <<cq>>
              THEN handle_answer(s2, question) @@ [w |-> w2]
              ELSE [ss |-> s2, warning |-> FALSE, rerun |-> FALSE, w |-> w2]
       ELSE [ss |-> s1, warning |-> FALSE, rerun |-> FALSE, w |-> NoRadio]

\* display_question() taking a current_q past the end round to position 0
\* instead of back to the last position.
display_question_wraps(ss, w, ev) ==
  LET s1 == [ss EXCEPT !.current_q =
                IF ss.current_q > NQ - 1 THEN 0 ELSE Max(0, ss.current_q)]
      cq == s1.current_q
      q == s1.shuffled_questions[cq]
      question == questions[q]
      options == [i \in 0..(Len(question.options) - 1) |->
                    OptionLabel(i, question.options[i + 1])]
      id == RadioId(cq, q)
      selected == IF /\ ev.type = "select"
                     /\ ev.arg[1] = id
                     /\ ev.arg[2] \in DOMAIN options
                    THEN Some(options[ev.arg[2]])
                  ELSE IF w.id = id THEN w.value
                  ELSE None
      s2 == IF Truthy(selected)
              THEN [s1 EXCEPT !.selected_options[cq] =
                                 Some(clean_answer(Val(selected)))]
              ELSE s1
      w2 == [id |-> id, value |-> selected]
  IN IF ~s1.submitted[cq]
       THEN IF ev.type = "submit" /\ ev.arg = <<cq>>
              THEN handle_answer(s2, question) @@ [w |-> w2]
              ELSE [ss |-> s2, warning |-> FALSE, rerun |-> FALSE, w |-> w2]
       ELSE [ss |-> s1, warning |-> FALSE, rerun |-> FALSE, w |-> NoRadio]

\* display_question() submitting as soon as an option is picked.
display_question_autosubmit(ss, w, ev) ==
  LET s1 == [ss EXCEPT !.current_q =
                Max(0, Min(ss.current_q, NQ - 1))]
      cq == s1.current_q
      q == s1.shuffled_questions[cq]
      question == questions[q]
      options == [i \in 0..(Len(question.options) - 1) |->
                    OptionLabel(i, question.options[i + 1])]
      id == RadioId(cq, q)
      selected == IF /\ ev.type = "select"
                     /\ ev.arg[1] = id
                     /\ ev.arg[2] \in DOMAIN options
                    THEN Some(options[ev.arg[2]])
                  ELSE IF w.id = id THEN w.value
                  ELSE None
      s2 == IF Truthy(selected)
              THEN [s1 EXCEPT !.selected_options[cq] =
                                 Some(clean_answer(Val(selected)))]
              ELSE s1
      w2 == [id |-> id, value |-> selected]
  IN IF ~s1.submitted[cq]
       THEN IF \/ ev.type = "submit" /\ ev.arg = <<cq>>
               \/ ev.type = "select" /\ ev.arg[1] = id
              THEN handle_answer(s2, question) @@ [w |-> w2]
              ELSE [ss |-> s2, warning |-> FALSE, rerun |-> FALSE, w |-> w2]
       ELSE [ss |-> s1, warning |-> FALSE, rerun |-> FALSE, w |-> NoRadio]

\* display_question() rendering the radio and the submit button on a
\* submitted position too.
display_question_ungated(ss, w, ev) ==
  LET s1 == [ss EXCEPT !.current_q =
                Max(0, Min(ss.current_q, NQ - 1))]
      cq == s1.current_q
      q == s1.shuffled_questions[cq]
      question == questions[q]
      options == [i \in 0..(Len(question.options) - 1) |->
                    OptionLabel(i, question.options[i + 1])]
      id == RadioId(cq, q)
      selected == IF /\ ev.type = "select"
                     /\ ev.arg[1] = id
                     /\ ev.arg[2] \in DOMAIN options
                    THEN Some(options[ev.arg[2]])
                  ELSE IF w.id = id THEN w.value
                  ELSE None
      s2 == IF Truthy(selected)
              THEN [s1 EXCEPT !.selected_options[cq] =
                                 Some(clean_answer(Val(selected)))]
              ELSE s1
      w2 == [id |-> id, value |-> selected]
  IN IF ev.type = "submit" /\ ev.arg = <<cq>>
       THEN handle_answer(s2, question) @@ [w |-> w2]
       ELSE [ss |-> s2, warning |-> FALSE, rerun |-> FALSE, w |-> w2]

\* display_question(): w is the radio widget kept from the previous run,
\* ev the user event this run sees.  The radio keeps its value when the
\* previous run rendered a radio of the same identity; a "select" event
\* for a radio of this identity gives it the label the user picked.  The
\* button keyed submit_{current_q} reports a click made on a button of that
\* key.
display_question(ss, w, ev) ==
  LET s1 == [ss EXCEPT !.current_q =
                Max(0, Min(ss.current_q, NQ - 1))]
      cq == s1.current_q
      q == s1.shuffled_questions[cq]
      question == questions[q]
      options == [i \in 0..(Len(question.options) - 1) |->
                    OptionLabel(i, question.options[i + 1])]
      id == RadioId(cq, q)
      selected == IF /\ ev.type = "select"
                     /\ ev.arg[1] = id
                     /\ ev.arg[2] \in DOMAIN options
                    THEN Some(options[ev.arg[2]])
                  ELSE IF w.id = id THEN w.value
                  ELSE None
      s2 == IF Truthy(selected)
              THEN [s1 EXCEPT !.selected_options[cq] =
                                 Some(clean_answer(Val(selected)))]
              ELSE s1
      w2 == [id |-> id, value |-> selected]
  IN IF ~s1.submitted[cq]
       THEN IF ev.type = "submit" /\ ev.arg = <<cq>>
              THEN handle_answer(s2, question) @@ [w |-> w2]
              ELSE [ss |-> s2, warning |-> FALSE, rerun |-> FALSE, w |-> w2]
       ELSE [ss |-> s1, warning |-> FALSE, rerun |-> FALSE, w |-> NoRadio]

\* navigation_controls() with "Previous" disabled, like "Next", while the
\* current position is not submitted.
navigation_controls_prev_gated(ss, ev, now, shuffle) ==
  LET disabled_prev == ss.current_q = 0 \/ ~ss.submitted[ss.current_q]
      disabled_next == ~ss.submitted[ss.current_q]
  IN IF ev.type = "previous"
       THEN [ss |-> [ss EXCEPT !.current_q = @ - 1],
             rerun |-> TRUE, prev |-> <<~disabled_prev>>, next |-> <<>>]
     ELSE IF ev.type = "next"
       THEN [ss |-> [ss EXCEPT !.current_q = @ + 1],
             rerun |-> TRUE,
             prev |-> <<~disabled_prev>>, next |-> <<~disabled_next>>]
     ELSE IF ev.type = "restart"
       THEN [ss |-> restart_quiz(ss, now, shuffle),
             rerun |-> TRUE,
             prev |-> <<~disabled_prev>>, next |-> <<~disabled_next>>]
     ELSE [ss |-> ss, rerun |-> FALSE,
           prev |-> <<~disabled_prev>>, next |-> <<~disabled_next>>]

\* navigation_controls(): st.button returns True in the run that renders a
\* button of the identity the user clicked; `disabled` is an attribute of
\* the rendered button, which the browser enforces on the page it displays.
\* prev and next are the buttons the run rendered before it ended, each
\* with whether it is enabled.
navigation_controls(ss, ev, now, shuffle) ==
  LET disabled_prev == ss.current_q = 0
      disabled_next == ~ss.submitted[ss.current_q]
  IN IF ev.type = "previous"
       THEN [ss |-> [ss EXCEPT !.current_q = @ - 1],
             rerun |-> TRUE, prev |-> <<~disabled_prev>>, next |-> <<>>]
     ELSE IF ev.type = "next"
       THEN [ss |-> [ss EXCEPT !.current_q = @ + 1],
             rerun |-> TRUE,
             prev |-> <<~disabled_prev>>, next |-> <<~disabled_next>>]
     ELSE IF ev.type = "restart"
       THEN [ss |-> restart_quiz(ss, now, shuffle),
             rerun |-> TRUE,
             prev |-> <<~disabled_prev>>, next |-> <<~disabled_next>>]
     ELSE [ss |-> ss, rerun |-> FALSE,
           prev |-> <<~disabled_prev>>, next |-> <<~disabled_next>>]

\* sum(st.session_state.submitted)
RECURSIVE SumTo(_, _)
SumTo(f, n) == IF n = 0 THEN 0
               ELSE SumTo(f, n - 1) + (IF f[n - 1] THEN 1 ELSE 0)
attempted_of(ss) == SumTo(ss.submitted, NQ)

\* f"{accuracy:.1f}%": the percentage score / attempted * 100 rounded to the
\* nearest tenth, held as a number of tenths.  (No tie arises for fewer than
\* 16 attempted questions.)
Format1f(score, attempted) == (2000 * score + attempted) \div (2 * attempted)

NA == <<"N/A">>
Pct(tenths) == <<"%", tenths>>

\* The metrics with the accuracy taken over all questions instead of over
\* the attempted ones.
ComputeMetrics_over_total(ss) ==
  LET attempted == attempted_of(ss)
      total_questions == NQ
  IN [attempted |-> <<attempted, total_questions>>,
      accuracy |-> IF attempted > 0
                     THEN Pct(Format1f(ss.score, total_questions))
                     ELSE NA,
      progress |-> <<attempted, total_questions>>]

\* The two st.metric calls and the st.progress call of progress_sidebar().
ComputeMetrics(ss) ==
  LET attempted == attempted_of(ss)
      total_questions == NQ
  IN [attempted |-> <<attempted, total_questions>>,
      accuracy |-> IF attempted > 0
                     THEN Pct(Format1f(ss.score, attempted))
                     ELSE NA,
      progress |-> <<attempted, total_questions>>]

\* The status with the test for the current position made first.
NavStatus_current_first(ss, i) ==
  IF i = ss.current_q THEN "pointer"
  ELSE IF ss.submitted[i]
    THEN IF ss.answers[i] = Some(TRUE) THEN "check" ELSE "cross"
  ELSE "empty"

\* The status shown on the navigator button of position i.
NavStatus(ss, i) ==
  IF ss.submitted[i]
    THEN IF ss.answers[i] = Some(TRUE) THEN "check" ELSE "cross"
  ELSE IF i = ss.current_q THEN "pointer"
  ELSE "empty"

\* progress_sidebar() with navigator buttons that act only once the current
\* position is submitted.
progress_sidebar_gated(ss, ev) ==
  LET clicked == IF /\ ev.type = "jump"
                    /\ ev.arg[1] \in Positions
                    /\ ss.submitted[ss.current_q]
                   THEN <<ev.arg[1]>>
                   ELSE <<>>
      last == IF clicked # <<>> THEN clicked[1] ELSE NQ - 1
      shown == [metrics |-> ComputeMetrics(ss),
                nav |-> [i \in 0..last |-> NavStatus(ss, i)]]
  IN IF clicked # <<>>
       THEN [ss |-> [ss EXCEPT !.current_q = clicked[1]], rerun |-> TRUE,
             shown |-> shown]
       ELSE [ss |-> ss, rerun |-> FALSE, shown |-> shown]

\* progress_sidebar(): renders the metrics and the navigator buttons in
\* order; the button keyed nav_{i} reports a click made on the button of
\* that key, and the run then moves to position i and ends.  shown.nav
\* holds the labels of the buttons rendered.
progress_sidebar(ss, ev) ==
  LET clicked == IF /\ ev.type = "jump"
                    /\ ev.arg[1] \in Positions
                   THEN <<ev.arg[1]>>
                   ELSE <<>>
      last == IF clicked # <<>> THEN clicked[1] ELSE NQ - 1
      shown == [metrics |-> ComputeMetrics(ss),
                nav |-> [i \in 0..last |-> NavStatus(ss, i)]]
  IN IF clicked # <<>>
       THEN [ss |-> [ss EXCEPT !.current_q = clicked[1]], rerun |-> TRUE,
             shown |-> shown]
       ELSE [ss |-> ss, rerun |-> FALSE, shown |-> shown]

\* What a run has rendered when it has rendered nothing, and the buttons
\* of the browser before the first run.
Blank == [question |-> <<>>, warning |-> FALSE,
          metrics |-> <<>>, nav |-> [i \in Positions |-> "none"]]
NoButtons == [prev |-> FALSE, next |-> FALSE]

\* main(): one script run.  A call of st.rerun() ends the run at once; the
\* browser keeps the buttons b that the run did not render anew.  d is what
\* display_question() returned, n what navigation_controls() returned and
\* p what progress_sidebar() returned.  The heading
\* f"### Question {current_q + 1}" is the one display_question() rendered.
main_page(d, n, p) ==
  [ss |-> p.ss, w |-> d.w, rerun |-> p.rerun,
   view |-> [question |-> <<d.ss.current_q>>,
             warning |-> d.warning,
             metrics |-> p.shown.metrics,
             nav |-> [i \in Positions |->
                        IF i \in DOMAIN p.shown.nav
                          THEN p.shown.nav[i] ELSE "none"]],
   buttons |-> [prev |-> n.prev[1], next |-> n.next[1]]]

\* The run from progress_sidebar() on.
main_sidebar(d, n, ev) ==
  main_page(d, n, progress_sidebar(n.ss, ev))

\* The run from navigation_controls() on.
main_navigation(d, n, b, ev) ==
  IF n.rerun
    THEN [ss |-> n.ss, w |-> d.w, rerun |-> TRUE,
          view |-> [Blank EXCEPT !.question = <<d.ss.current_q>>,
                                 !.warning = d.warning],
          buttons |-> [prev |-> n.prev[1],
                       next |-> IF n.next = <<>> THEN b.next
                                ELSE n.next[1]]]
    ELSE main_sidebar(d, n, ev)

\* The run from display_question() on.
main_display(d, b, ev, now, shuffle) ==
  IF d.rerun
    THEN [ss |-> d.ss, w |-> d.w, rerun |-> TRUE,
          view |-> [Blank EXCEPT !.question = <<d.ss.current_q>>],
          buttons |-> b]
    ELSE main_navigation(d, navigation_controls(d.ss, ev, now, shuffle),
                         b, ev)

main(ss, w, b, ev, now, shuffle) ==
  main_display(
    display_question(initialize_session_state(ss, now, shuffle), w, ev),
    b, ev, now, shuffle)

\* ---------------------------------------------------------------- machine
\* A run that calls neither restart_quiz() nor, in initialize_session_state(),
\* random.shuffle() still evaluates datetime.now(), and would draw a shuffle
\* if it did call random.shuffle().  These are the values it is given: the
\* latest clock reading and an arrangement that differs from the session's at
\* every position.
LateTime == MaxTime
OtherShuffle(ss) ==
  [i \in Positions |-> ss.shuffled_questions[(i + 1) % NQ]]

\* One script run on the event ev.
Step(ev, now, shuffle) ==
  \E r \in {main(session_state, radio, buttons, ev, now, shuffle)} :
     /\ session_state' = r.ss
     /\ radio' = r.w
     /\ view' = r.view
     /\ buttons' = r.buttons
     /\ rerun' = r.rerun

\* The Question whose radio the browser displays.
CurrentQuestion(w) == questions[w.id[2]]

\* The first script run of a session; datetime.now() reads any value.
Init ==
  \E now \in Times, shuffle \in Shuffles :
    \E r \in {main(EmptySessionState, NoRadio, NoButtons, NoEvent, now,
                    shuffle)} :
       /\ session_state = r.ss
       /\ radio = r.w
       /\ view = r.view
       /\ buttons = r.buttons
       /\ rerun = r.rerun
       /\ lastOp = Event("start", <<>>)

\* The user picks option o of the radio in the browser.
SelectOption ==
  /\ radio.id # <<>>
  /\ \E o \in 0..(Len(CurrentQuestion(radio).options) - 1) :
       /\ lastOp' = Event("select", <<radio.id, o>>)
       /\ Step(Event("select", <<radio.id, o>>),
               LateTime, OtherShuffle(session_state))

\* The user clicks the "Submit Answer" button in the browser, which stands
\* below the radio and has the key of the radio's position.
SubmitAnswer ==
  /\ radio.id # <<>>
  /\ lastOp' = Event("submit", <<radio.id[1]>>)
  /\ Step(Event("submit", <<radio.id[1]>>),
          LateTime, OtherShuffle(session_state))

\* The user clicks "Next", which the browser shows enabled.
Advance ==
  /\ buttons.next
  /\ lastOp' = Event("next", <<>>)
  /\ Step(Event("next", <<>>), LateTime, OtherShuffle(session_state))

\* The user clicks "Previous", which the browser shows enabled.
Retreat ==
  /\ buttons.prev
  /\ lastOp' = Event("previous", <<>>)
  /\ Step(Event("previous", <<>>), LateTime, OtherShuffle(session_state))

\* The user clicks the navigator button of position k.
JumpTo ==
  \E k \in Positions :
    /\ lastOp' = Event("jump", <<k>>)
    /\ Step(Event("jump", <<k>>), LateTime, OtherShuffle(session_state))

\* The user clicks "Restart Quiz"; datetime.now() reads any value, the
\* session's start time or an earlier one included.
Restart ==
  \E now \in Times, shuffle \in Shuffles :
    /\ lastOp' = Event("restart", <<>>)
    /\ Step(Event("restart", <<>>), now, shuffle)

\* The script runner starts the run that st.rerun() asked for; no widget
\* interaction has arrived.
Rerun ==
  /\ rerun
  /\ lastOp' = [lastOp EXCEPT !.run = 2]
  /\ Step(NoEvent, LateTime, OtherShuffle(session_state))

\* The script runs again with no widget interaction and no rerun
\* outstanding.
Rerender ==
  /\ ~rerun
  /\ lastOp' = NoEvent
  /\ Step(NoEvent, LateTime, OtherShuffle(session_state))

Next ==
  \/ SelectOption
  \/ SubmitAnswer
  \/ Advance
  \/ Retreat
  \/ JumpTo
  \/ Restart
  \/ Rerun
  \/ Rerender

Spec == Init /\ [][Next]_vars

\* handle_answer() called for the current position although that position
\* is submitted already (the operation SubmitAnswer applied a second time).
Resubmit ==
  LET cq == session_state.current_q
  IN /\ ~rerun
     /\ session_state.submitted[cq]
     /\ lastOp' = Event("resubmit", <<cq>>)
     /\ \E r \in {handle_answer(session_state,
                                questions[session_state.shuffled_questions[cq]])} :
          /\ session_state' = r.ss
          /\ rerun' = r.rerun
          /\ UNCHANGED <<radio, view, buttons>>

NextOp == Next \/ Resubmit

SpecOp == Init /\ [][NextOp]_vars

\* ---------------------------------------------------------------- claims
Score == session_state.score
CurrentQ == session_state.current_q
Answers == session_state.answers
Selected == session_state.selected_options
Submitted == session_state.submitted
Order == session_state.shuffled_questions
StartTime == session_state.start_time

\* The correct answer of the question at position i.
CorrectAnswerAt(i) == questions[Order[i]].correct_answer

\* The position a run displays when it starts with current_q = cq.
Clamp(cq) == Max(0, Min(cq, NQ - 1))

\* C1: in every reachable state the score is the number of positions whose
\* answer is recorded as correct.
C1_ScoreCountsCorrect ==
  Score = Cardinality({i \in Positions : Answers[i] = Some(TRUE)})

\* One position answered correctly and another answered wrongly.
C1_Witness ==
  /\ Score = 1
  /\ \E i, j \in Positions :
       Answers[i] = Some(TRUE) /\ Answers[j] = Some(FALSE)

\* C2: a submit of a position that is submitted already, whether through a
\* click on its "Submit Answer" button or by a further call of
\* handle_answer(), changes neither the score nor the recorded answer of
\* that position.
C2_ResubmitKeepsScore ==
  [][\A i \in Positions :
       (/\ lastOp'.type \in {"submit", "resubmit"}
        /\ lastOp'.arg = <<i>>
        /\ Submitted[i])
       => (/\ Score' = Score
           /\ Answers'[i] = Answers[i])]_vars

\* handle_answer() has run a second time on a correctly answered position.
C2_Witness ==
  /\ lastOp.type = "resubmit"
  /\ Submitted[CurrentQ]
  /\ Answers[CurrentQ] = Some(TRUE)
  /\ Score = 1

\* C3: a click on the "Submit Answer" button of the displayed position
\* while that position has no selected option shows the warning, leaves the
\* session state as it was and asks for no rerun.
C3_SubmitUnselectedWarns ==
  [][\A i \in Positions :
       (/\ lastOp'.type = "submit"
        /\ lastOp'.run = 1
        /\ lastOp'.arg = <<i>>
        /\ Clamp(CurrentQ) = i
        /\ ~Submitted[i]
        /\ ~Truthy(Selected[i]))
       => (/\ view'.warning
           /\ ~rerun'
           /\ session_state' = [session_state EXCEPT !.current_q = i])]_vars

\* C4: a click on the "Submit Answer" button of the displayed position,
\* open and with a selected option, records whether the selection equals the
\* correct answer of the question at that position, adds one to the score
\* exactly when it does, and marks the position submitted.
C4_SubmitRecords ==
  [][\A i \in Positions :
       (/\ lastOp'.type = "submit"
        /\ lastOp'.run = 1
        /\ lastOp'.arg = <<i>>
        /\ Clamp(CurrentQ) = i
        /\ ~Submitted[i]
        /\ Truthy(Selected[i]))
       => LET isCorrect == Val(Selected[i]) = CorrectAnswerAt(i)
          IN /\ Answers'[i] = Some(isCorrect)
             /\ Score' = Score + (IF isCorrect THEN 1 ELSE 0)
             /\ Submitted'[i]]_vars

\* A wrong answer has just been submitted after a correct one elsewhere.
C4_Witness ==
  /\ lastOp.type = "submit"
  /\ Submitted[CurrentQ]
  /\ Answers[CurrentQ] = Some(FALSE)
  /\ Score = 1

\* C5: Restart can always be taken, and once it is done (the click's run and
\* the rerun it asks for) the score is 0, the current position is 0, no
\* position is submitted, no position has a recorded answer or a selected
\* option, and the order is an arrangement of the whole bank.
C5_RestartResetsAll ==
  /\ Times # {} /\ Shuffles # {}
  /\ (lastOp.type = "restart" /\ lastOp.run = 2) =>
       /\ Score = 0
       /\ CurrentQ = 0
       /\ \A i \in Positions :
            ~Submitted[i] /\ Answers[i] = None /\ Selected[i] = None
       /\ Order \in Shuffles

\* Order is a bijection from the positions onto the bank's indices.
IsPermutation(order) ==
  /\ DOMAIN order = Positions
  /\ \A i \in Positions : order[i] \in DOMAIN questions
  /\ \A q \in DOMAIN questions : \E i \in Positions : order[i] = q
  /\ \A i, j \in Positions : order[i] = order[j] => i = j

\* C6: the order is always a bijection onto the bank's index set, and only
\* Restart changes it after the session has started.
C6_OrderIsPermutation ==
  /\ [](IsPermutation(Order))
  /\ [][lastOp'.type # "restart" => Order' = Order]_vars

\* A restart has produced an order other than the bank's own.
C6_Witness ==
  /\ lastOp.type = "restart"
  /\ Order[0] # 0
  /\ IsPermutation(Order)

\* C7: a click on "Next" that reaches a run displaying a position that is
\* not submitted does not move the current position.
C7_NextGated ==
  [][(/\ lastOp'.type = "next"
      /\ lastOp'.run = 1
      /\ ~Submitted[Clamp(CurrentQ)])
     => CurrentQ' = Clamp(CurrentQ)]_vars

\* C8: a click on the navigator button of position k makes k the current
\* position, whatever is submitted, and the rerun that follows keeps it.
C8_JumpSetsCurrent ==
  lastOp.type = "jump" => <<CurrentQ>> = lastOp.arg

\* A jump to position 1 with neither the source nor the target submitted,
\* and its rerun.
C8_Witness ==
  /\ lastOp.type = "jump"
  /\ lastOp.arg = <<1>>
  /\ lastOp.run = 2
  /\ CurrentQ = 1
  /\ \A i \in Positions : ~Submitted[i]

\* C9: every heading rendered names a position of the order, the current
\* position is within the order whenever no rerun is outstanding, and the
\* rerun of a "Next" that left the last position puts the current position
\* back on the last position.
C9_CurrentInRange ==
  /\ [](view.question[1] \in Positions)
  /\ [](~rerun => (CurrentQ \in Positions /\ view.question = <<CurrentQ>>))
  /\ [][(/\ lastOp'.type = "next"
         /\ lastOp'.run = 2
         /\ CurrentQ >= NQ - 1)
        => CurrentQ' = NQ - 1]_vars

\* "Next" was clicked on the submitted last position, which was reached by
\* a jump (position 0 is open), and its rerun has run.
C9_Witness ==
  /\ lastOp.type = "next"
  /\ lastOp.run = 2
  /\ CurrentQ = NQ - 1
  /\ Submitted[NQ - 1]
  /\ ~Submitted[0]

AttemptedCount == Cardinality({i \in Positions : Submitted[i]})

\* t tenths is the percentage 100 * num / den rounded to the nearest tenth.
NearestTenth(t, num, den) ==
  /\ 2 * (t * den - 1000 * num) <= den
  /\ 2 * (1000 * num - t * den) <= den

\* The accuracy a is "N/A" exactly when nothing is attempted, and otherwise
\* the percentage of score in attempted to one decimal.
ShownAccuracy(a, score, attempted) ==
  /\ a = NA <=> attempted = 0
  /\ attempted > 0 =>
       /\ Len(a) = 2
       /\ a = Pct(a[2])
       /\ a[2] \in 0..1000
       /\ NearestTenth(a[2], score, attempted)

\* The accuracy a is "N/A" or a percentage between 0.0 and 100.0.
InPercentRange(a) ==
  \/ a = NA
  \/ Len(a) = 2 /\ a = Pct(a[2]) /\ a[2] \in 0..1000

\* C10: the accuracy computed is "N/A" exactly when no position is
\* submitted, and otherwise score / attempted * 100 (to the one decimal
\* displayed); a page rendered to its end shows it; computing the metrics
\* leaves the session state as it is.
C10_Accuracy ==
  /\ ShownAccuracy(ComputeMetrics(session_state).accuracy, Score,
                   AttemptedCount)
  /\ ~rerun => view.metrics = ComputeMetrics(session_state)
  /\ progress_sidebar(session_state, NoEvent).ss = session_state

\* Two positions attempted, one of them correct: 50.0%.
C10_Witness ==
  /\ ~rerun
  /\ AttemptedCount = 2
  /\ Score = 1
  /\ view.metrics.accuracy = Pct(500)

\* C11: running initialize_session_state() again on a session that is
\* initialized changes nothing, whatever the clock reads and whatever a
\* shuffle would draw; a script run with no widget interaction leaves the
\* session state as it was.
C11_InitializeIdempotent ==
  /\ [](\A now \in Times, shuffle \in Shuffles :
          initialize_session_state(session_state, now, shuffle)
            = session_state)
  /\ [][lastOp'.type = "rerender" => session_state' = session_state]_vars

\* A re-render of a session that has a submitted answer, at a clock reading
\* later than the session's start.
C11_Witness ==
  /\ lastOp.type = "rerender"
  /\ Submitted[CurrentQ]
  /\ Score = 1
  /\ StartTime < MaxTime

\* C12: a run that submits, moves the current position or restarts ends
\* with st.rerun() before it renders anything further, and the page that the
\* following run renders to its end shows the state after the mutation: the
\* heading, the answer area, the two navigation buttons, the attempted count
\* and the navigator.
C12_ViewIsFresh ==
  /\ [](~rerun =>
          /\ view.question = <<CurrentQ>>
          /\ radio = NoRadio <=> Submitted[CurrentQ]
          /\ ~Submitted[CurrentQ]
               => radio.id = RadioId(CurrentQ, Order[CurrentQ])
          /\ buttons.next <=> Submitted[CurrentQ]
          /\ buttons.prev <=> CurrentQ > 0
          /\ view.metrics.attempted
               = <<Cardinality({i \in Positions : Submitted[i]}), NQ>>
          /\ \A i \in Positions :
               /\ view.nav[i] \in {"check", "cross"} <=> Submitted[i]
               /\ view.nav[i] = "check" => Answers[i] = Some(TRUE)
               /\ view.nav[i] = "pointer" => i = CurrentQ)
  /\ [][(/\ lastOp'.run = 1
         /\ \/ Submitted' # Submitted
            \/ Answers' # Answers
            \/ Score' # Score
            \/ Order' # Order
            \/ CurrentQ' # Clamp(CurrentQ)
            \/ lastOp'.type = "restart")
        => rerun']_vars

\* The rerun of a submit has rendered the submitted position.
C12_Witness ==
  /\ lastOp.type = "submit"
  /\ lastOp.run = 2
  /\ ~rerun
  /\ Submitted[CurrentQ]
  /\ radio = NoRadio
  /\ view.nav[CurrentQ] = "check"
  /\ view.metrics.attempted = <<1, NQ>>

\* C13: a navigator rendered to its end shows for every position the one
\* status its state determines: check or cross once it is submitted (correct
\* or not), also when it is the current position; otherwise pointer when it
\* is the current position and empty when it is not.
C13_NavigatorStatus ==
  ~rerun =>
    \A i \in Positions :
      view.nav[i] =
        (IF Submitted[i] /\ Answers[i] = Some(TRUE) THEN "check"
         ELSE IF Submitted[i] /\ Answers[i] = Some(FALSE) THEN "cross"
         ELSE IF ~Submitted[i] /\ i = CurrentQ THEN "pointer"
         ELSE IF ~Submitted[i] /\ i # CurrentQ THEN "empty"
         ELSE "none")

\* The current position is submitted and wrong, another one is untouched.
C13_Witness ==
  /\ ~rerun
  /\ Submitted[CurrentQ]
  /\ view.nav[CurrentQ] = "cross"
  /\ \E j \in Positions : view.nav[j] = "empty"

\* C14: picking an option changes neither the score nor the submitted list
\* nor the recorded answers, on an open position and on a submitted one.
C14_SelectKeepsScoring ==
  [][lastOp'.type = "select"
     => (/\ Score' = Score
         /\ Submitted' = Submitted
         /\ Answers' = Answers)]_vars

\* A pick of the radio arrived after the position it belongs to had been
\* submitted, before the rerun of the submit rendered the page anew.
C14_Witness ==
  /\ lastOp.type = "select"
  /\ lastOp.arg[1] = RadioId(CurrentQ, Order[CurrentQ])
  /\ Submitted[CurrentQ]
  /\ Score = 1

\* C15: a submitted position stays submitted and keeps its recorded answer
\* through every step other than a restart.
C15_SubmissionIsTerminal ==
  [][\A i \in Positions :
       (Submitted[i] /\ lastOp'.type # "restart")
       => (Submitted'[i] /\ Answers'[i] = Answers[i])]_vars

\* A second position was submitted while the first one stayed locked.
C15_Witness ==
  /\ lastOp.type = "submit"
  /\ \E i \in Positions :
       i # CurrentQ /\ Submitted[i] /\ Answers[i] = Some(TRUE)
  /\ Submitted[CurrentQ]

\* C16: "Previous" is enabled on every page rendered to its end for a
\* position k > 0, whatever is submitted; a click on it moves the current
\* position one back from the position displayed, and after the rerun that
\* follows the current position is that position, or 0 when the click
\* reached a run displaying position 0.
C16_PreviousUngated ==
  /\ [](~rerun => (buttons.prev <=> CurrentQ > 0) /\ CurrentQ >= 0)
  /\ [][(lastOp'.type = "previous" /\ lastOp'.run = 1)
        => CurrentQ' = Clamp(CurrentQ) - 1]_vars
  /\ [][(lastOp'.type = "previous" /\ lastOp'.run = 2)
        => CurrentQ' = Max(0, CurrentQ)]_vars

\* "Previous" was clicked with nothing submitted and its rerun has run; the
\* radio of position 0 was rendered anew although position 0 has a
\* selection, so position 0 was entered from elsewhere.
C16_Witness ==
  /\ lastOp.type = "previous"
  /\ lastOp.run = 2
  /\ CurrentQ = 0
  /\ \A i \in Positions : ~Submitted[i]
  /\ Truthy(Selected[0])
  /\ radio.value = None

\* C17: submitted and answers agree on which positions have been answered:
\* submitted[i] is true exactly when answers[i] is not None.
C17_SubmittedIffAnswered ==
  \A i \in Positions : Submitted[i] <=> Answers[i] # None

\* One position answered and one not, in a session whose start time is not
\* the earliest clock reading.
C17_Witness ==
  /\ StartTime > 0
  /\ \E i, j \in Positions :
       /\ Submitted[i] /\ Answers[i] # None
       /\ ~Submitted[j] /\ Answers[j] = None

\* C18: 0 <= score <= attempted <= number of questions, the accuracy
\* computed is "N/A" or a percentage between 0.0 and 100.0, the progress
\* fraction is attempted out of the total with attempted within 0..total,
\* and a page rendered to its end shows these.
C18_ScoreBounds ==
  /\ 0 <= Score
  /\ Score <= AttemptedCount
  /\ AttemptedCount <= Cardinality(DOMAIN Order)
  /\ InPercentRange(ComputeMetrics(session_state).accuracy)
  /\ ComputeMetrics(session_state).progress
       = <<AttemptedCount, Cardinality(DOMAIN Order)>>
  /\ ~rerun => view.metrics = ComputeMetrics(session_state)

\* Everything answered and everything right: accuracy 100.0, progress full.
C18_Witness ==
  /\ ~rerun
  /\ Score = NQ
  /\ AttemptedCount = NQ
  /\ view.metrics.accuracy = Pct(1000)
  /\ view.metrics.progress = <<NQ, NQ>>

\* C19: a submitted position has a stored selection, and its recorded answer
\* says whether that selection equals the correct answer of its question.
C19_ScoredSelectionKept ==
  \A i \in Positions :
    Submitted[i]
    => (/\ Truthy(Selected[i])
        /\ Answers[i] = Some(Val(Selected[i]) = CorrectAnswerAt(i)))

\* A pick of the radio arrived at a position submitted with a wrong answer.
C19_Witness ==
  /\ lastOp.type = "select"
  /\ lastOp.arg[1] = RadioId(CurrentQ, Order[CurrentQ])
  /\ Submitted[CurrentQ]
  /\ Answers[CurrentQ] = Some(FALSE)
  /\ Val(Selected[CurrentQ]) # CorrectAnswerAt(CurrentQ)

\* C20: the run that a click on "Next", "Previous" or a navigator button
\* reaches, and the rerun that follows it, leave the question order, the
\* selections, the submitted list, the answers, the score and the start time
\* as they were.
C20_NavigationFrame ==
  [][lastOp'.type \in {"next", "previous", "jump"}
     => (/\ Order' = Order
         /\ Selected' = Selected
         /\ Submitted' = Submitted
         /\ Answers' = Answers
         /\ Score' = Score
         /\ StartTime' = StartTime)]_vars

====
